---- MODULE Spec2Model ----
(***************************************************************************)
(* Model of deployment.js: the release automation script that queries Jira *)
(* for the issues of a release, resolves the repositories touched by their *)
(* pull requests, and either prints a table (check), cuts release branches *)
(* (release_branch) or opens release pull requests (release_pr).           *)
(*                                                                         *)
(* The script is one thread of control; each action below is one awaited   *)
(* call together with the synchronous code that follows it.  The external  *)
(* services (Jira, git working copies, Bitbucket) answer                   *)
(* nondeterministically: every call may succeed or fail.  `log` records,   *)
(* in order, every external call and every console line.                   *)
(***************************************************************************)
EXTENDS Naturals, Sequences, FiniteSets

VARIABLES
  releaseAction,   \* process.argv[2]
  releaseVersion,  \* process.argv[3]
  pc,              \* position of the single thread of control
  invoked,         \* entry points called by the switch, in call order
  jiraRes,         \* result of getJiraCardsFromRelease in the running entry point
  i,               \* loop variable of getReposFromRelease / displayReleaseDetails
  repos,           \* local `repos` of getReposFromRelease, <<>> outside the call
  table,           \* accumulator `table` of displayReleaseDetails
  releaseRepos,    \* `releaseRepos` of createReleaseBranches / createReleasePRs
  idx,             \* number of elements of releaseRepos the for-of loop has taken
  log              \* external calls and console lines, in order

vars == <<releaseAction, releaseVersion, pc, invoked, jiraRes, i, repos, table,
          releaseRepos, idx, log>>

----------------------------------------------------------------------------
(* Bounds of the model *)

MaxIssues == 2
MaxPRs == 2

(* Inputs *)

Tokens == {"check", "release_branch", "release_pr", "deploy"}
Versions == {"1.2.3", "2.0.0"}
RepoNames == {"developer-api", "developer-center", "scratchpad"}

----------------------------------------------------------------------------
(* Constants of the script *)

RELEASE_ACTIONS == {"check", "release_branch", "release_pr"}

WHITELISTED_REPOS ==
  {"developer-api", "developer-center", "developer-oauth", "developer-event",
   "mini-app-store", "sub9-api", "metafield-api", "multipass-api",
   "merchant-event-serializer", "storefront-api"}

releaseBranchName == "release/" \o releaseVersion

MutPrSourceBranch == releaseVersion

PrSourceBranch == releaseBranchName

DevBranch == "dev"

----------------------------------------------------------------------------
(* Helpers *)

SeqsUpTo(S, n) == UNION {[1..k -> S] : k \in 0..n}

Range(s) == {s[k] : k \in 1..Len(s)}

RECURSIVE UniqFrom(_, _)
UniqFrom(s, seen) ==
  IF s = <<>> THEN <<>>
  ELSE IF Head(s) \in seen THEN UniqFrom(Tail(s), seen)
  ELSE <<Head(s)>> \o UniqFrom(Tail(s), seen \cup {Head(s)})

\* _.uniq: the first occurrence of every element, in order
Uniq(s) == UniqFrom(s, {})

Ev(kind, repo, arg, n, res) ==
  [kind |-> kind, repo |-> repo, arg |-> arg, n |-> n, res |-> res]

Undefined == [defined |-> FALSE, issues |-> <<>>]

Release(n) == [defined |-> TRUE, issues |-> [k \in 1..n |-> k]]

\* an exception that no try/catch encloses: the async entry point rejects
Uncaught == Ev("uncaught", "", "", 0, "")

----------------------------------------------------------------------------
Init ==
  /\ releaseAction \in Tokens
  /\ releaseVersion \in Versions
  /\ pc = "start"
  /\ invoked = <<>>
  /\ jiraRes = Undefined
  /\ i = 0
  /\ repos = <<>>
  /\ table = <<>>
  /\ releaseRepos = <<>>
  /\ idx = 0
  /\ log = <<>>

(* Action validation, lines 9-14 *)

MutValidAction(a) == TRUE

ValidAction(a) == a \in RELEASE_ACTIONS

Validate ==
  /\ pc = "start"
  /\ IF ValidAction(releaseAction)
       THEN /\ pc' = "switch"
            /\ log' = log
       ELSE /\ pc' = "exit"
            /\ log' = Append(log, Ev("error_invalid_action", "", releaseAction, 0, ""))
  /\ UNCHANGED <<releaseAction, releaseVersion, invoked, jiraRes, i, repos,
                 table, releaseRepos, idx>>

(* Main control, lines 261-273 *)

EntryOf(a) ==
  CASE a = "check" -> <<"displayReleaseDetails">>
    [] a = "release_branch" -> <<"createReleaseBranches">>
    [] a = "release_pr" -> <<"createReleasePRs">>
    [] OTHER -> <<>>

Switch ==
  /\ pc = "switch"
  /\ invoked' = invoked \o EntryOf(releaseAction)
  /\ pc' = IF EntryOf(releaseAction) = <<>> THEN "exit" ELSE "search"
  /\ UNCHANGED <<releaseAction, releaseVersion, jiraRes, i, repos, table,
                 releaseRepos, idx, log>>

Entry == IF invoked = <<>> THEN "" ELSE invoked[Len(invoked)]

----------------------------------------------------------------------------
(* getJiraCardsFromRelease, lines 92-102: the search either returns the     *)
(* release's issues or throws; the catch logs and the function returns      *)
(* nothing.                                                                 *)

MutSearchFailureResult == Release(0)

SearchFailureResult == Undefined

AfterSearch == IF Entry = "displayReleaseDetails" THEN "display" ELSE "resolve"

SearchJira ==
  /\ pc = "search"
  /\ \/ \E n \in 0..MaxIssues :
          /\ jiraRes' = Release(n)
          /\ log' = Append(log, Ev("jira_search", "", releaseVersion, 0, "ok"))
     \/ /\ jiraRes' = SearchFailureResult
        /\ log' = log \o <<Ev("jira_search", "", releaseVersion, 0, "fail"),
                           Ev("log_search_error", "", "", 0, "")>>
  /\ pc' = AfterSearch
  /\ UNCHANGED <<releaseAction, releaseVersion, invoked, i, repos, table,
                 releaseRepos, idx>>

(* getPRsFromJira, lines 85-89, and the read of detail.detail[0].pullRequests *)
(* that follows each call (lines 111-112, 133-134).  The call resolves with   *)
(* pull requests ("ok"), rejects ("reject"), or resolves with an empty detail *)
(* list so that the read throws ("nodetail").  A pull request is modelled by  *)
(* its repositoryName.  The log records the call and, when pull requests      *)
(* came back, how many.                                                       *)

DetailOutcomes == {"ok", "reject", "nodetail"}

MutAfterDetail(outcome, continue) == continue

AfterDetail(outcome, continue) == IF outcome = "ok" THEN continue ELSE "crashed"

DetailLog(issue, outcome, prs) ==
  <<Ev("jira_detail", "", "", issue, IF outcome = "reject" THEN "fail" ELSE "ok")>>
    \o (IF outcome = "ok"
          THEN <<Ev("jira_pullRequests", "", "", Len(prs), "")>>
          ELSE IF AfterDetail(outcome, "") = "crashed" THEN <<Uncaught>> ELSE <<>>)

(* displayReleaseDetails, lines 125-154 *)

DisplayThrow ==
  /\ pc = "display"
  /\ ~jiraRes.defined
  /\ pc' = "crashed"
  /\ log' = Append(log, Uncaught)
  /\ UNCHANGED <<releaseAction, releaseVersion, invoked, jiraRes, i, repos,
                 table, releaseRepos, idx>>

DisplayFetch ==
  /\ pc = "display"
  /\ jiraRes.defined
  /\ i < Len(jiraRes.issues)
  /\ \E outcome \in DetailOutcomes, prs \in SeqsUpTo(RepoNames, MaxPRs) :
       /\ outcome # "ok" => prs = <<>>
       /\ pc' = AfterDetail(outcome, "display")
       /\ log' = log \o DetailLog(jiraRes.issues[i + 1], outcome, prs)
       /\ table' = IF outcome = "ok"
                     THEN Append(table, [key |-> jiraRes.issues[i + 1],
                                         Repo |-> Uniq(prs)])
                     ELSE table
  /\ i' = IF pc' = "crashed" THEN i ELSE i + 1
  /\ UNCHANGED <<releaseAction, releaseVersion, invoked, jiraRes, repos,
                 releaseRepos, idx>>

DisplayRender ==
  /\ pc = "display"
  /\ jiraRes.defined
  /\ i >= Len(jiraRes.issues)
  /\ pc' = "done"
  /\ log' = Append(log, Ev("console_table", "", "", Len(table), ""))
  /\ UNCHANGED <<releaseAction, releaseVersion, invoked, jiraRes, i, repos,
                 table, releaseRepos, idx>>

(* getReposFromRelease, lines 105-118 *)

ResolveThrow ==
  /\ pc = "resolve"
  /\ ~jiraRes.defined
  /\ pc' = "crashed"
  /\ log' = Append(log, Uncaught)
  /\ UNCHANGED <<releaseAction, releaseVersion, invoked, jiraRes, i, repos,
                 table, releaseRepos, idx>>

ResolveFetch ==
  /\ pc = "resolve"
  /\ jiraRes.defined
  /\ i < Len(jiraRes.issues)
  /\ \E outcome \in DetailOutcomes, prs \in SeqsUpTo(RepoNames, MaxPRs) :
       /\ outcome # "ok" => prs = <<>>
       /\ pc' = AfterDetail(outcome, "resolve")
       /\ log' = log \o DetailLog(jiraRes.issues[i + 1], outcome, prs)
       /\ repos' = IF outcome = "ok" THEN repos \o Uniq(prs) ELSE repos
  /\ i' = IF pc' = "crashed" THEN i ELSE i + 1
  /\ UNCHANGED <<releaseAction, releaseVersion, invoked, jiraRes, table,
                 releaseRepos, idx>>

MutResolved(r) == r

Resolved(r) == Uniq(r)

ResolveReturn ==
  /\ pc = "resolve"
  /\ jiraRes.defined
  /\ i >= Len(jiraRes.issues)
  /\ releaseRepos' = Resolved(repos)
  /\ repos' = <<>>
  /\ pc' = "loop"
  /\ UNCHANGED <<releaseAction, releaseVersion, invoked, jiraRes, i,
                 table, idx, log>>

----------------------------------------------------------------------------
(* The for-of loops of createReleaseBranches (lines 193-215) and             *)
(* createReleasePRs (lines 235-255)                                          *)

MutWhitelisted(repository) == TRUE

Whitelisted(repository) == repository \in WHITELISTED_REPOS

\* the loop variable `repository` of the iteration in progress
MutCurrentRepo == releaseRepos[1]

CurrentRepo == releaseRepos[idx]

Blank == Ev("blank", "", "", 0, "")

FirstStep == IF Entry = "createReleaseBranches" THEN "open" ELSE "post"

LoopNext ==
  /\ pc = "loop"
  /\ idx < Len(releaseRepos)
  /\ idx' = idx + 1
  /\ LET repository == releaseRepos[idx + 1] IN
       IF Whitelisted(repository)
         THEN /\ pc' = FirstStep
              /\ log' = Append(log, Ev("log_creating", repository,
                                       IF Entry = "createReleaseBranches"
                                         THEN releaseBranchName ELSE "", 0, ""))
         ELSE /\ pc' = "loop"
              /\ log' = log \o <<Ev("log_skip", repository, "", 0, ""), Blank>>
  /\ UNCHANGED <<releaseAction, releaseVersion, invoked, jiraRes, i, repos,
                 table, releaseRepos>>

LoopEnd ==
  /\ pc = "loop"
  /\ idx >= Len(releaseRepos)
  /\ pc' = "done"
  /\ UNCHANGED <<releaseAction, releaseVersion, invoked, jiraRes, i, repos,
                 table, releaseRepos, idx, log>>

\* the catch blocks, lines 203-208 and 243-248: log and go on with the loop
MutOnFailure == "crashed"

OnFailure == "loop"

StepOk(kind, arg, res, next) ==
  /\ pc' = next
  /\ log' = Append(log, Ev(kind, CurrentRepo, arg, 0, res))

StepFail(kind, arg) ==
  /\ pc' = OnFailure
  /\ log' = log \o <<Ev(kind, CurrentRepo, arg, 0, "fail"),
                     Ev("log_error", CurrentRepo, "", 0, ""), Blank>>

LastStepOk(kind, arg) ==
  /\ pc' = "loop"
  /\ log' = log \o <<Ev(kind, CurrentRepo, arg, 0, "ok"),
                     Ev("log_success", CurrentRepo, "", 0, ""), Blank>>

Frame == UNCHANGED <<releaseAction, releaseVersion, invoked, jiraRes, i, repos,
                     table, releaseRepos, idx>>

(* checkoutBranch, lines 169-172: simpleGit throws when the working copy's *)
(* directory does not exist                                                *)

GitOpen ==
  /\ pc = "open"
  /\ \/ StepOk("simpleGit", "", "ok", "status")
     \/ StepFail("simpleGit", "")
  /\ Frame

(* stashChangesIfNeeded, lines 161-167 *)

MutAfterStatus(res) == "fetch"

AfterStatus(res) == IF res = "clean" THEN "fetch" ELSE "stash"

GitStatus ==
  /\ pc = "status"
  /\ \/ \E res \in {"clean", "dirty"} :
          StepOk("git_status", "", res, AfterStatus(res))
     \/ StepFail("git_status", "")
  /\ Frame

GitStash ==
  /\ pc = "stash"
  /\ \/ StepOk("git_stash", "", "ok", "fetch")
     \/ StepFail("git_stash", "")
  /\ Frame

(* checkoutBranch, lines 177-185 *)

GitFetch ==
  /\ pc = "fetch"
  /\ \/ StepOk("git_fetch", "", "ok", "checkout")
     \/ StepFail("git_fetch", "")
  /\ Frame

GitCheckout ==
  /\ pc = "checkout"
  /\ \/ StepOk("git_checkout", DevBranch, "ok", "pull")
     \/ StepFail("git_checkout", DevBranch)
  /\ Frame

GitPull ==
  /\ pc = "pull"
  /\ \/ StepOk("git_pull", "", "ok", "checkoutLocalBranch")
     \/ StepFail("git_pull", "")
  /\ Frame

GitCheckoutLocalBranch ==
  /\ pc = "checkoutLocalBranch"
  /\ \/ StepOk("git_checkoutLocalBranch", releaseBranchName, "ok", "push")
     \/ StepFail("git_checkoutLocalBranch", releaseBranchName)
  /\ Frame

GitPush ==
  /\ pc = "push"
  /\ \/ LastStepOk("git_push", releaseBranchName)
     \/ StepFail("git_push", releaseBranchName)
  /\ Frame

(* createBitbucketPr, lines 223-228 *)

PostPr ==
  /\ pc = "post"
  /\ \/ LastStepOk("pr_post", PrSourceBranch)
     \/ StepFail("pr_post", PrSourceBranch)
  /\ Frame

----------------------------------------------------------------------------
Next ==
  \/ Validate
  \/ Switch
  \/ SearchJira
  \/ DisplayThrow
  \/ DisplayFetch
  \/ DisplayRender
  \/ ResolveThrow
  \/ ResolveFetch
  \/ ResolveReturn
  \/ LoopNext
  \/ LoopEnd
  \/ GitOpen
  \/ GitStatus
  \/ GitStash
  \/ GitFetch
  \/ GitCheckout
  \/ GitPull
  \/ GitCheckoutLocalBranch
  \/ GitPush
  \/ PostPr

Spec == Init /\ [][Next]_vars

----------------------------------------------------------------------------
(* Vocabulary of the properties *)

GitKinds == {"git_status", "git_stash", "git_fetch", "git_checkout", "git_pull",
             "git_checkoutLocalBranch", "git_push"}

\* everything done on behalf of one repository
RepoOps == GitKinds \cup {"simpleGit", "pr_post"}

BatchEntries == {"createReleaseBranches", "createReleasePRs"}

Positions(kinds, r) ==
  {k \in 1..Len(log) : log[k].kind \in kinds /\ log[k].repo = r}

Count(kinds, r) == Cardinality(Positions(kinds, r))

Happened(kinds) == \E k \in 1..Len(log) : log[k].kind \in kinds

SearchFailed ==
  \E k \in 1..Len(log) : log[k].kind = "jira_search" /\ log[k].res = "fail"

DetailFailed ==
  \E k \in 1..Len(log) : log[k].kind = "jira_detail" /\ log[k].res = "fail"

BatchDone == pc = "done" /\ Entry \in BatchEntries

\* the first call of checkoutBranch / createBitbucketPr
FirstOpKind == IF Entry = "createReleaseBranches" THEN "simpleGit" ELSE "pr_post"

GitSeq(r) ==
  LET IsGitOf(e) == e.repo = r /\ e.kind \in GitKinds
  IN  SelectSeq(log, IsGitOf)

ExpectedSteps(dirty) ==
  <<"git_status">> \o (IF dirty THEN <<"git_stash">> ELSE <<>>)
    \o <<"git_fetch", "git_checkout", "git_pull", "git_checkoutLocalBranch",
         "git_push">>

----------------------------------------------------------------------------
\* C1: every version-control step and every PR call is for a repository of the
\* resolved set that is on the whitelist; a resolved repository that is not on
\* the whitelist gets no such step, and exactly one skip notice once the loop
\* has finished (never more than one before).
C1_NonWhitelistedSkipped ==
  /\ \A k \in 1..Len(log) :
       log[k].kind \in RepoOps \cup {"log_creating"} =>
         /\ log[k].repo \in WHITELISTED_REPOS
         /\ log[k].repo \in Range(releaseRepos)
  /\ \A r \in Range(releaseRepos) \ WHITELISTED_REPOS :
       /\ Count(RepoOps, r) = 0
       /\ Count({"log_skip"}, r) <= 1
       /\ BatchDone => Count({"log_skip"}, r) = 1

C1_Witness ==
  /\ BatchDone
  /\ "scratchpad" \in Range(releaseRepos)
  /\ Count({"log_skip"}, "scratchpad") = 1
  /\ Count({"log_success"}, "developer-api") = 1

\* C2: a failing step of a whitelisted repository is followed by an error line
\* naming that repository, the run never ends in an uncaught exception once the
\* loop has started, and when the loop has finished every whitelisted
\* repository of the resolved set was attempted and ran to its own success or
\* failure, whatever happened to the repositories before it.
C2_FailureDoesNotEndBatch ==
  /\ idx > 0 => pc # "crashed"
  /\ \A k \in 1..Len(log) :
       (log[k].kind \in RepoOps /\ log[k].res = "fail") =>
         /\ k < Len(log)
         /\ log[k + 1].kind = "log_error"
         /\ log[k + 1].repo = log[k].repo
  /\ BatchDone =>
       \A b \in 1..Len(releaseRepos) :
         releaseRepos[b] \in WHITELISTED_REPOS =>
           /\ Count({FirstOpKind}, releaseRepos[b]) >= 1
           /\ Count({"log_success", "log_error"}, releaseRepos[b]) = 1

C2_Witness ==
  /\ BatchDone
  /\ \E a, b \in 1..Len(releaseRepos) :
       /\ a < b
       /\ Count({"log_error"}, releaseRepos[a]) = 1
       /\ Count({"log_success"}, releaseRepos[b]) = 1

\* C3: once the Jira search has failed, the error is logged, no table is
\* rendered, and no version-control step and no PR call is made.
C3_SearchFailureNoWork ==
  SearchFailed =>
    /\ Happened({"log_search_error"})
    /\ ~Happened({"console_table"})
    /\ ~Happened(RepoOps)

C3_Witness ==
  /\ SearchFailed
  /\ Entry = "displayReleaseDetails"
  /\ pc = "crashed"

\* C4: once the Jira search has failed, the action finishes normally: no
\* uncaught exception is raised.
C4_SearchFailureFinishesNormally ==
  SearchFailed => (pc # "crashed" /\ ~Happened({"uncaught"}))

\* C5: getReposFromRelease returns every repository name it collected exactly
\* once; so each whitelisted one is attempted at most once, and exactly once
\* when the loop has finished, and each other one is skipped exactly once.
C5_ResolvedOnce ==
  /\ [][(pc = "resolve" /\ pc' = "loop") =>
          Range(releaseRepos') = Range(repos)]_vars
  /\ [](/\ \A a, b \in 1..Len(releaseRepos) :
             releaseRepos[a] = releaseRepos[b] => a = b
        /\ \A r \in Range(releaseRepos) :
             /\ Count({"log_creating", "log_skip"}, r) <= 1
             /\ Count({FirstOpKind}, r) <= 1
             /\ BatchDone =>
                  IF r \in WHITELISTED_REPOS
                    THEN /\ Count({"log_creating"}, r) = 1
                         /\ Count({FirstOpKind}, r) = 1
                    ELSE Count({"log_skip"}, r) = 1)

\* issue 1 links two pull requests, issue 2 one, and two repositories result
C5_Witness ==
  /\ BatchDone
  /\ Len(jiraRes.issues) = 2
  /\ \E j, k \in 1..Len(log) :
       /\ j < k
       /\ log[j].kind = "jira_pullRequests" /\ log[j].n = 2
       /\ log[k].kind = "jira_pullRequests" /\ log[k].n = 1
  /\ releaseRepos = <<"developer-api", "scratchpad">>
  /\ Count({FirstOpKind}, "developer-api") = 1
  /\ Count({"log_skip"}, "scratchpad") = 1

\* C6: once a pull-request detail fetch has failed during repository
\* resolution, the run has ended in an exception, no repository set was
\* produced, and nothing is done or logged for any repository.
C6_DetailFailureIsHard ==
  (Entry \in BatchEntries /\ DetailFailed) =>
    /\ pc = "crashed"
    /\ releaseRepos = <<>>
    /\ ~Happened(RepoOps \cup {"log_creating", "log_skip"})

\* the first issue's fetch had contributed a whitelisted repository
C6_Witness ==
  /\ Entry = "createReleaseBranches"
  /\ DetailFailed
  /\ pc = "crashed"
  /\ repos = <<"developer-api">>

\* C7: with an action token outside the three valid ones, the error is
\* reported, no entry point is invoked and nothing else happens; with a valid
\* token the switch invokes the one matching entry point and no other, and
\* only that entry point's work appears.
C7_Dispatch ==
  /\ releaseAction \notin {"check", "release_branch", "release_pr"} =>
       /\ invoked = <<>>
       /\ pc \in {"start", "exit"}
       /\ pc = "start" => log = <<>>
       /\ pc = "exit" => /\ Len(log) = 1
                         /\ log[1].kind = "error_invalid_action"
                         /\ log[1].arg = releaseAction
  /\ releaseAction \in {"check", "release_branch", "release_pr"} =>
       /\ ~Happened({"error_invalid_action"})
       /\ pc \in {"start", "switch"} => (invoked = <<>> /\ log = <<>>)
       /\ pc \notin {"start", "switch"} =>
            /\ pc # "exit"
            /\ releaseAction = "check" => invoked = <<"displayReleaseDetails">>
            /\ releaseAction = "release_branch" => invoked = <<"createReleaseBranches">>
            /\ releaseAction = "release_pr" => invoked = <<"createReleasePRs">>
       /\ releaseAction = "check" => ~Happened(RepoOps)
       /\ releaseAction = "release_branch" => ~Happened({"pr_post", "console_table"})
       /\ releaseAction = "release_pr" => ~Happened(GitKinds \cup {"console_table"})

C7_Witness ==
  /\ releaseAction = "deploy"
  /\ pc = "exit"
  /\ Len(log) = 1

\* C8: the branch created and pushed by the branch operator and the source
\* branch sent by the PR operator are, at every use in a run, "release/"
\* followed by the release identifier.
C8_SameBranchName ==
  \A k \in 1..Len(log) :
    log[k].kind \in {"git_checkoutLocalBranch", "git_push", "pr_post"} =>
      log[k].arg = "release/" \o releaseVersion

C8_Witness ==
  /\ releaseVersion = "1.2.3"
  /\ \E k \in 1..Len(log) :
       log[k].kind = "pr_post" /\ log[k].res = "ok" /\ log[k].arg = "release/1.2.3"

\* C9: the version-control steps of a repository are a prefix of: status,
\* stash exactly when the status was not clean, fetch, checkout of dev, pull,
\* new local branch, push, starting right after the working copy was opened;
\* only the last step made can have failed; success is logged only after the
\* whole sequence, an error only after a failed step.
C9_StepOrder ==
  \A r \in RepoNames :
    LET s == GitSeq(r)
        exp == ExpectedSteps(s # <<>> /\ s[1].res = "dirty")
    IN  /\ Len(s) <= Len(exp)
        /\ \A k \in 1..Len(s) :
             /\ s[k].kind = exp[k]
             /\ k < Len(s) => s[k].res # "fail"
        /\ (Entry = "createReleaseBranches" /\ Count({"log_success"}, r) > 0) =>
             (Len(s) = Len(exp) /\ s[Len(s)].res = "ok")
        /\ (Entry = "createReleaseBranches" /\ Count({"log_error"}, r) > 0) =>
             IF s = <<>>
               THEN \E k \in Positions({"simpleGit"}, r) : log[k].res = "fail"
               ELSE s[Len(s)].res = "fail"
        /\ s # <<>> =>
             \E k \in Positions({"log_creating"}, r) :
               /\ k + 2 <= Len(log)
               /\ log[k + 1].kind = "simpleGit" /\ log[k + 1].res = "ok"
               /\ log[k + 2] = s[1]
        /\ (s # <<>> /\ s[Len(s)].res # "fail" /\ Len(s) < Len(exp)) =>
             (pc \notin {"loop", "done"} /\ CurrentRepo = r)

C9_Witness ==
  /\ BatchDone
  /\ \E r1, r2 \in RepoNames :
       /\ Len(GitSeq(r1)) = 7
       /\ GitSeq(r1)[1].res = "dirty"
       /\ GitSeq(r1)[2].kind = "git_stash"
       /\ Count({"log_success"}, r1) = 1
       /\ Len(GitSeq(r2)) = 4
       /\ GitSeq(r2)[1].res = "clean"
       /\ GitSeq(r2)[4].kind = "git_pull"
       /\ GitSeq(r2)[4].res = "fail"

\* C10: every detail fetch comes before the first line or step of any
\* repository, the lines and steps of one repository are consecutive, and at
\* most one repository has been started and not yet finished.
C10_NoInterleaving ==
  /\ \A k \in 1..Len(log) :
       log[k].kind = "jira_detail" =>
         \A j \in 1..k : log[j].repo = ""
  /\ \A l \in 2..Len(log) :
       (log[l].repo # "" /\ log[l - 1].repo # log[l].repo) =>
         \A j \in 1..l : j < l => log[j].repo # log[l].repo
  /\ Cardinality({r \in RepoNames :
                    Count({"log_creating"}, r)
                      > Count({"log_success", "log_error"}, r)}) <= 1

C10_Witness ==
  /\ BatchDone
  /\ Len(jiraRes.issues) = 2
  /\ Count({"log_error"}, "developer-center") = 1
  /\ Count({"log_success"}, "developer-api") = 1
  /\ Count({"log_skip"}, "scratchpad") = 1
  /\ releaseRepos[1] = "developer-center"

====
